---- MODULE Spec2Model ----
(***************************************************************************)
(* gorillabot: a chat bot that keeps one status message per followed       *)
(* (channel, game server) pair up to date.  The model covers the           *)
(* subscription store (src/src/db.rs), the follow_server / unfollow_server *)
(* command handlers and the polling loop spawned by cache_ready            *)
(* (src/src/main.rs).                                                      *)
(***************************************************************************)
EXTENDS Integers, Sequences, FiniteSets, TLC

\* ------------------------------------------------------------- bounds
\* Number of status messages the chat platform hands out ids for.
MaxMsgs == 2
\* Number of seconds the wall clock advances under SpecReady.
MaxClock == 2

\* ------------------------------------------------------------- inputs
Channels == {"c1", "c2"}
Hosts == {"h1", "h2"}
\* What a user may type after follow_server: nothing, a malformed address,
\* an address that resolves to no socket address, or a resolvable host.
Args == {"", "bad", "nores"} \cup Hosts
MsgIds == 1..MaxMsgs
\* The polling tasks the runtime holds under Spec, and under SpecReady.
LoopIds == {1}
ReadyLoopIds == {1, 2}
\* The command invocations in flight at one time.
HandlerIds == {1}

\* msg.guild_id: the guild a channel belongs to.
GuildOf(c) == IF c = "c1" THEN "g1" ELSE "g2"

\* to_socket_addrs with the empty iterator not looked at.
resolve_ignores_empty(arg) == IF arg = "bad" THEN "err" ELSE "ok"

\* str::to_socket_addrs as used by follow_server.
Resolve(arg) ==
  IF arg = "bad" THEN "err"
  ELSE IF arg = "nores" THEN "none"
  ELSE "ok"

VARIABLES
  db,               \* rows of table subscriptions
  is_loop_running,  \* Handler.is_loop_running
  live,             \* message ids that exist on the chat platform
  nextMsg,          \* id the platform gives the next message sent
  task,             \* polling tasks spawned by cache_ready
  cmd,              \* command handler invocations
  clock,            \* Local::now(), in seconds
  mutex,            \* who holds the lock of BotDb's Mutex<Connection>
  call              \* BotDb method calls under SpecStore, step by step

vars == <<db, is_loop_running, live, nextMsg, task, cmd, clock, mutex, call>>

\* ------------------------------------------------------------- store
Subscription(id, c, m, h) ==
  [id |-> id, guild_id |-> GuildOf(c), channel_id |-> c,
   message_id |-> m, server_hostname |-> h]

RECURSIVE MaxId(_)
MaxId(d) ==
  IF d = {} THEN 0
  ELSE LET r == CHOOSE x \in d : TRUE
           rest == MaxId(d \ {r})
       IN IF r.id > rest THEN r.id ELSE rest

\* The rowid given to a freshly inserted row.
NextRowId(d) == MaxId(d) + 1

\* ON CONFLICT (channel_id): the host is not part of the key.
conflicts_on_channel(d, c, h) == {r \in d : r.channel_id = c}

\* The rows the ON CONFLICT (channel_id, server_hostname) clause catches.
Conflicts(d, c, h) ==
  {r \in d : r.channel_id = c /\ r.server_hostname = h}

\* A plain INSERT: no conflict clause.
upsert_always_inserts(d, c, m, h) ==
  d \cup {Subscription(NextRowId(d), c, m, h)}

\* INSERT OR REPLACE: the conflicting row goes, a new row comes.
upsert_replaces_row(d, c, m, h) ==
  (d \ Conflicts(d, c, h)) \cup {Subscription(NextRowId(d), c, m, h)}

\* INSERT ... ON CONFLICT (channel_id, server_hostname) DO UPDATE SET
\* server_hostname = ?, message_id = ?
upsert_subscription(d, c, m, h) ==
  IF Conflicts(d, c, h) # {}
  THEN {IF r \in Conflicts(d, c, h)
        THEN [r EXCEPT !.server_hostname = h, !.message_id = m]
        ELSE r : r \in d}
  ELSE d \cup {Subscription(NextRowId(d), c, m, h)}

\* DELETE FROM subscriptions, the WHERE clause left out.
delete_all_channels(d, c) ==
  [db |-> {}, changes |-> Cardinality(d)]

\* DELETE FROM subscriptions WHERE channel_id = ? ; returns the changes.
delete_subscriptions_by_channel_id(d, c) ==
  [db |-> {r \in d : r.channel_id # c},
   changes |-> Cardinality({r \in d : r.channel_id = c})]

\* DELETE FROM subscriptions WHERE message_id = ? : the wrong column.
delete_by_wrong_column(d, id) ==
  [db |-> {r \in d : r.message_id # id},
   changes |-> Cardinality({r \in d : r.message_id = id})]

\* DELETE FROM subscriptions WHERE id = ? ; returns the changes.
delete_subscription_by_id(d, id) ==
  [db |-> {r \in d : r.id # id},
   changes |-> Cardinality({r \in d : r.id = id})]

RECURSIVE get_subscriptions(_)
\* SELECT ... FROM subscriptions: the rows in rowid order.
get_subscriptions(d) ==
  IF d = {} THEN <<>>
  ELSE LET r == CHOOSE x \in d : \A y \in d : x.id <= y.id
       IN <<r>> \o get_subscriptions(d \ {r})

\* ------------------------------------------------------------- state
NoSub == Subscription(0, "c1", 0, "h1")

\* A polling task: the future spawned in cache_ready.  cur is the
\* subscription handle_subscription was called with and rest what the for
\* loop has not taken yet; info is the Option handed to
\* get_server_status_setter and at the time that call read (updated_at);
\* q lists the a2s queries made for cur, each with its outcome;
\* lastEdit is update_message_result.  edits and
\* dels count the edit_message and delete_subscription_by_id calls made for
\* cur, changes is what the delete returned, absent the channels that had no
\* row when the cycle read its list.  A task whose future panicked
\* (an unwrap on Err) is at pc "panicked" for good.
\* Option<(Info, Vec<Player>)>: None, or the server's answer.
NoInfo == [some |-> FALSE, name |-> "", map |-> "", players |-> 0,
           list |-> <<>>]

IdleTask ==
  [pc |-> "unspawned", cur |-> NoSub, rest |-> <<>>, info |-> NoInfo,
   at |-> 0, q |-> <<>>, lastEdit |-> "none", edits |-> 0, dels |-> 0,
   changes |-> -1, absent |-> {}]

\* A command invocation.  trail lists the steps that completed, text is the
\* reply sent to the user, result the CommandResult returned, hit tells
\* whether the upsert met an existing row, changes is what the store's
\* delete returned.
IdleCmd ==
  [pc |-> "idle", kind |-> "none", channel |-> "c1", arg |-> "",
   msg |-> 0, trail |-> <<>>, text |-> "", result |-> "none",
   hit |-> FALSE, changes |-> -1]

\* Who calls BotDb's methods: main (migrate), a command handler (upsert,
\* delete by channel) and the polling loop (list, delete by id).
Clients == {"main", "handler", "loop"}

\* A BotDb method call: pc is where it stands (idle, wait for the lock,
\* held, mid-statement, executed), the rest its arguments and what the
\* statement returned.
NoCall ==
  [pc |-> "idle", op |-> "none", channel |-> "c1", host |-> "h1",
   msg |-> 0, id |-> 0, rows |-> <<>>, changes |-> -1]

Init ==
  /\ db = {}
  /\ is_loop_running = FALSE
  /\ live = {}
  /\ nextMsg = 1
  /\ task = [l \in LoopIds |-> IdleTask]
  /\ cmd = [h \in HandlerIds |-> IdleCmd]
  /\ clock = 0
  /\ mutex = "free"
  /\ call = [c \in Clients |-> NoCall]

\* ------------------------------------------------------------- cache_ready
Loops == DOMAIN task

Spawned == {l \in Loops : task[l].pc # "unspawned"}

\* Handler::cache_ready: the flag is loaded and, when it is false, the loop
\* is spawned.  Nothing stores to the flag.
cache_ready ==
  /\ Spawned # Loops
  /\ IF ~is_loop_running
     THEN LET l == CHOOSE x \in Loops \ Spawned :
                     \A y \in Loops \ Spawned : x <= y
          IN task' = [task EXCEPT ![l] = [IdleTask EXCEPT !.pc = "list"]]
     ELSE task' = task
  /\ UNCHANGED <<db, is_loop_running, live, nextMsg, cmd, clock, mutex, call>>

\* ------------------------------------------------------------- polling loop
\* for subscription in subscriptions: the next entry is handed to
\* handle_subscription, or the list is exhausted and the task sleeps.
TakeNext(t) ==
  IF t.rest # <<>>
  THEN [t EXCEPT !.pc = "info", !.cur = Head(t.rest), !.rest = Tail(t.rest),
                 !.info = NoInfo, !.at = 0, !.q = <<>>, !.lastEdit = "none",
                 !.edits = 0, !.dels = 0, !.changes = -1]
  ELSE [IdleTask EXCEPT !.pc = "sleep"]

\* The channels without a row in d.
Unfollowed(d) == {c \in Channels : \A r \in d : r.channel_id # c}

\* A list read from a copy of the table that still has a deleted row.
list_from_stale_copy(l) ==
  /\ task[l].pc = "list"
  /\ \E ok \in BOOLEAN :
       IF ok
       THEN task' = [task EXCEPT ![l] =
              TakeNext([IdleTask EXCEPT
                 !.rest = get_subscriptions(db \cup {Subscription(MaxMsgs + 1, "c1", 1, "h1")}),
                 !.absent = Unfollowed(db)])]
       ELSE task' = [task EXCEPT ![l] = [IdleTask EXCEPT !.pc = "panicked"]]
  /\ UNCHANGED <<db, is_loop_running, live, nextMsg, cmd, clock, mutex, call>>

\* let subscriptions = db.get_subscriptions().await.unwrap();
ListSubscriptions(l) ==
  /\ task[l].pc = "list"
  /\ \E ok \in BOOLEAN :
       IF ok
       THEN task' = [task EXCEPT ![l] =
              TakeNext([IdleTask EXCEPT !.rest = get_subscriptions(db),
                                        !.absent = Unfollowed(db)])]
       ELSE task' = [task EXCEPT ![l] = [IdleTask EXCEPT !.pc = "panicked"]]
  /\ UNCHANGED <<db, is_loop_running, live, nextMsg, cmd, clock, mutex, call>>

\* What the game server at h answers to an info query: its name and map,
\* and a player count.
ServerName(h) == IF h = "h1" THEN "alpha" ELSE "beta"
ServerMap(h) == IF h = "h1" THEN "dust" ELSE "manor"
PlayerCounts == {0, 2}
PlayerLists == {<<>>, <<"ann", "bob">>}

\* The info query with a failure that ends the entry without an edit.
info_failure_skips_edit(l) ==
  /\ task[l].pc = "info"
  /\ \/ task' = [task EXCEPT ![l] =
            [@ EXCEPT !.info = NoInfo, !.at = clock, !.pc = "next",
                      !.q = Append(@, [query |-> "info", ok |-> FALSE])]]
     \/ \E n \in PlayerCounts :
          task' = [task EXCEPT ![l] =
            [@ EXCEPT !.info = [some |-> TRUE,
                                name |-> ServerName(task[l].cur.server_hostname),
                                map |-> ServerMap(task[l].cur.server_hostname),
                                players |-> n, list |-> <<>>],
                      !.q = Append(@, [query |-> "info", ok |-> TRUE]),
                      !.at = IF n > 0 THEN 0 ELSE clock,
                      !.pc = IF n > 0 THEN "players" ELSE "edit"]]
  /\ UNCHANGED <<db, is_loop_running, live, nextMsg, cmd, clock, mutex, call>>

\* let info = a2s_client.info(..).await; match info { Ok(info) => if
\* info.players > 0 { players query } else { Some((info, Vec::new())) },
\* Err(err) => None }
QueryInfo(l) ==
  /\ task[l].pc = "info"
  /\ \/ task' = [task EXCEPT ![l] =
            [@ EXCEPT !.info = NoInfo, !.at = clock, !.pc = "edit",
                      !.q = Append(@, [query |-> "info", ok |-> FALSE])]]
     \/ \E n \in PlayerCounts :
          task' = [task EXCEPT ![l] =
            [@ EXCEPT !.info = [some |-> TRUE,
                                name |-> ServerName(task[l].cur.server_hostname),
                                map |-> ServerMap(task[l].cur.server_hostname),
                                players |-> n, list |-> <<>>],
                      !.q = Append(@, [query |-> "info", ok |-> TRUE]),
                      !.at = IF n > 0 THEN 0 ELSE clock,
                      !.pc = IF n > 0 THEN "players" ELSE "edit"]]
  /\ UNCHANGED <<db, is_loop_running, live, nextMsg, cmd, clock, mutex, call>>

\* The players query with a failure that ends the entry without an edit.
players_failure_skips_edit(l) ==
  /\ task[l].pc = "players"
  /\ \/ task' = [task EXCEPT ![l] =
            [@ EXCEPT !.at = clock, !.pc = "next",
                      !.q = Append(@, [query |-> "players", ok |-> FALSE])]]
     \/ \E ps \in PlayerLists :
          task' = [task EXCEPT ![l] =
            [@ EXCEPT !.info.list = ps, !.at = clock, !.pc = "edit",
                      !.q = Append(@, [query |-> "players", ok |-> TRUE])]]
  /\ UNCHANGED <<db, is_loop_running, live, nextMsg, cmd, clock, mutex, call>>

\* a2s_client.players(..).await: Err(err) => Some((info, Vec::new())),
\* Ok(players) => Some((info, players))
QueryPlayers(l) ==
  /\ task[l].pc = "players"
  /\ \/ task' = [task EXCEPT ![l] =
            [@ EXCEPT !.at = clock, !.pc = "edit",
                      !.q = Append(@, [query |-> "players", ok |-> FALSE])]]
     \/ \E ps \in PlayerLists :
          task' = [task EXCEPT ![l] =
            [@ EXCEPT !.info.list = ps, !.at = clock, !.pc = "edit",
                      !.q = Append(@, [query |-> "players", ok |-> TRUE])]]
  /\ UNCHANGED <<db, is_loop_running, live, nextMsg, cmd, clock, mutex, call>>

\* embed.field(name, value, false)
Field(n, v) == [name |-> n, value |-> v, inline |-> FALSE]

RECURSIVE Join(_)
\* players.into_iter().map(|player| player.name).collect().join(", ")
Join(names) ==
  IF names = <<>> THEN ""
  ELSE IF Len(names) = 1 THEN names[1]
  ELSE names[1] \o ", " \o Join(Tail(names))

\* now.format("%Y-%m-%d %H:%M:%S").to_string(): one string per second.
FormatTime(now) == ToString(now)

\* The setter with the players.is_empty() test left out.
status_setter_always_lists_players(info, address, now) ==
  IF info.some
  THEN <<Field("Server name", info.name), Field("Server address", address),
         Field("Map", info.map),
         Field("Player count", ToString(info.players)),
         Field("Players", Join(info.list)),
         Field("Updated at", FormatTime(now))>>
  ELSE <<Field("Server name", "Unknown"), Field("Server address", address),
         Field("Map", "Unknown"), Field("Player count", "Unknown"),
         Field("Updated at", FormatTime(now))>>

\* get_server_status_setter(info, address), with the time Local::now()
\* returns: the fields the closure puts into the embed, in order.
get_server_status_setter(info, address, now) ==
  IF info.some
  THEN <<Field("Server name", info.name), Field("Server address", address),
         Field("Map", info.map),
         Field("Player count", ToString(info.players))>>
       \o (IF info.list = <<>> THEN <<>>
           ELSE <<Field("Players", Join(info.list))>>)
       \o <<Field("Updated at", FormatTime(now))>>
  ELSE <<Field("Server name", "Unknown"), Field("Server address", address),
         Field("Map", "Unknown"), Field("Player count", "Unknown"),
         Field("Updated at", FormatTime(now))>>

\* let status_setter = get_server_status_setter(info,
\* subscription.server_hostname.as_ref()): what the edit of task t sends.
StatusOf(t) == get_server_status_setter(t.info, t.cur.server_hostname, t.at)

\* What edit_message may return for a message that exists or not.
EditResults(m) ==
  IF m \in live THEN {"Ok", "Missing Permissions", "io"}
  ELSE {"Unknown Message", "Missing Permissions", "io"}

\* The message compared in another letter case: no error matches.
removed_error_wrong_case(err) == err = "unknown message"

\* Every unsuccessful HTTP request taken for a removed message.
removed_error_any_http(err) == err # "io"

\* HttpError::UnsuccessfulRequest(res) with res.error.message; "io" stands
\* for every error that is not an unsuccessful HTTP request.
is_message_was_removed_error(err) == err = "Unknown Message"

IsError(res) == res # "Ok"

\* The edit with a match that only logs every error.
edit_only_logs_errors(l) ==
  /\ task[l].pc = "edit"
  /\ \E res \in EditResults(task[l].cur.message_id) :
       LET t == [task[l] EXCEPT !.lastEdit = res, !.edits = @ + 1,
                                !.info = NoInfo, !.at = 0, !.q = <<>>]
       IN task' = [task EXCEPT ![l] = [t EXCEPT !.pc = "next"]]
  /\ UNCHANGED <<db, is_loop_running, live, nextMsg, cmd, clock, mutex, call>>

\* subscription.channel_id.edit_message(..).await and the match on it.
EditMessage(l) ==
  /\ task[l].pc = "edit"
  /\ \E res \in EditResults(task[l].cur.message_id) :
       LET t == [task[l] EXCEPT !.lastEdit = res, !.edits = @ + 1,
                                !.info = NoInfo, !.at = 0, !.q = <<>>]
       IN task' = [task EXCEPT ![l] =
            IF IsError(res) /\ is_message_was_removed_error(res)
            THEN [t EXCEPT !.pc = "delete"]
            ELSE [t EXCEPT !.pc = "next"]]
  /\ UNCHANGED <<db, is_loop_running, live, nextMsg, cmd, clock, mutex, call>>

\* db.delete_subscription_by_id(subscription.id.expect(..)).await.unwrap()
DeleteGone(l) ==
  /\ task[l].pc = "delete"
  /\ \E ok \in BOOLEAN :
       LET t == [task[l] EXCEPT !.dels = @ + 1]
           r == delete_subscription_by_id(db, t.cur.id)
       IN IF ok
          THEN /\ db' = r.db
               /\ task' = [task EXCEPT ![l] =
                    [t EXCEPT !.pc = "next", !.changes = r.changes]]
          ELSE /\ db' = db
               /\ task' = [task EXCEPT ![l] = [t EXCEPT !.pc = "panicked"]]
  /\ UNCHANGED <<is_loop_running, live, nextMsg, cmd, clock, mutex, call>>

\* handle_subscription returned Ok(()): the for loop goes on.
Continue(l) ==
  /\ task[l].pc = "next"
  /\ task' = [task EXCEPT ![l] = TakeNext(@)]
  /\ UNCHANGED <<db, is_loop_running, live, nextMsg, cmd, clock, mutex, call>>

\* tokio::time::sleep(config.poll_interval).await; then the next cycle.
Sleep(l) ==
  /\ task[l].pc = "sleep"
  /\ task' = [task EXCEPT ![l] = [IdleTask EXCEPT !.pc = "list"]]
  /\ UNCHANGED <<db, is_loop_running, live, nextMsg, cmd, clock, mutex, call>>

\* ------------------------------------------------------------- commands
Free(h) == cmd[h].pc \in {"idle", "done"}

Sending == {h \in HandlerIds : cmd[h].pc = "send"}

\* The invocation returns: its locals go, what it did stays on record.
Return(c, res) ==
  [IdleCmd EXCEPT !.pc = "done", !.kind = c.kind, !.trail = c.trail,
                  !.result = res]

\* follow_server up to its first await: the argument checks.
FollowStart(h, c, arg) ==
  /\ Free(h)
  /\ LET k == [IdleCmd EXCEPT !.kind = "follow", !.channel = c, !.arg = arg]
     IN IF arg = ""
        THEN cmd' = [cmd EXCEPT ![h] =
               [k EXCEPT !.pc = "reply", !.text = "Expected server hostname"]]
        ELSE IF Resolve(arg) = "err"
        THEN cmd' = [cmd EXCEPT ![h] =
               [k EXCEPT !.pc = "reply", !.text = "Invalid server hostname"]]
        ELSE IF Resolve(arg) = "none"
        THEN cmd' = [cmd EXCEPT ![h] =
               [k EXCEPT !.pc = "reply",
                         !.text = "Failed to resolve server address"]]
        ELSE /\ nextMsg + Cardinality(Sending) <= MaxMsgs
             /\ cmd' = [cmd EXCEPT ![h] =
                  [k EXCEPT !.pc = "send", !.trail = <<"validated">>]]
  /\ UNCHANGED <<db, is_loop_running, live, nextMsg, task, clock, mutex, call>>

\* msg.reply(ctx, text).await?; return CommandResult::Ok(())
Reply(h) ==
  /\ cmd[h].pc = "reply"
  /\ \E ok \in BOOLEAN :
       cmd' = [cmd EXCEPT ![h] =
         IF ok THEN Return([@ EXCEPT !.trail = Append(@, "replied")], "Ok")
         ELSE Return(@, "Err")]
  /\ UNCHANGED <<db, is_loop_running, live, nextMsg, task, clock, mutex, call>>

\* send_message with its error dropped instead of returned.
send_status_ignores_error(h) ==
  /\ cmd[h].pc = "send"
  /\ \E ok \in BOOLEAN :
       IF ok
       THEN /\ cmd' = [cmd EXCEPT ![h] =
                 [@ EXCEPT !.pc = "upsert", !.msg = nextMsg,
                           !.trail = Append(@, "sent")]]
            /\ live' = live \cup {nextMsg}
            /\ nextMsg' = nextMsg + 1
       ELSE /\ cmd' = [cmd EXCEPT ![h] = [@ EXCEPT !.pc = "upsert"]]
            /\ UNCHANGED <<live, nextMsg>>
  /\ UNCHANGED <<db, is_loop_running, task, clock, mutex, call>>

\* msg.channel_id.send_message(..).await?
SendStatus(h) ==
  /\ cmd[h].pc = "send"
  /\ \E ok \in BOOLEAN :
       IF ok
       THEN /\ cmd' = [cmd EXCEPT ![h] =
                 [@ EXCEPT !.pc = "upsert", !.msg = nextMsg,
                           !.trail = Append(@, "sent")]]
            /\ live' = live \cup {nextMsg}
            /\ nextMsg' = nextMsg + 1
       ELSE /\ cmd' = [cmd EXCEPT ![h] = Return(@, "Err")]
            /\ UNCHANGED <<live, nextMsg>>
  /\ UNCHANGED <<db, is_loop_running, task, clock, mutex, call>>

\* db.upsert_subscription(Subscription { id: None, .. }).await?
StoreSubscription(h) ==
  /\ cmd[h].pc = "upsert"
  /\ \E ok \in BOOLEAN :
       IF ok
       THEN /\ db' = upsert_subscription(db, cmd[h].channel, cmd[h].msg,
                                         cmd[h].arg)
            /\ cmd' = [cmd EXCEPT ![h] =
                 [@ EXCEPT !.pc = "react", !.trail = Append(@, "stored"),
                           !.hit = Conflicts(db, cmd[h].channel,
                                             cmd[h].arg) # {}]]
       ELSE /\ db' = db
            /\ cmd' = [cmd EXCEPT ![h] = Return(@, "Err")]
  /\ UNCHANGED <<is_loop_running, live, nextMsg, task, clock, mutex, call>>

\* msg.react(ctx, thumbs up).await?; CommandResult::Ok(())
React(h) ==
  /\ cmd[h].pc = "react"
  /\ \E ok \in BOOLEAN :
       cmd' = [cmd EXCEPT ![h] =
         IF ok THEN Return([@ EXCEPT !.trail = Append(@, "reacted")], "Ok")
         ELSE Return(@, "Err")]
  /\ UNCHANGED <<db, is_loop_running, live, nextMsg, task, clock, mutex, call>>

\* unfollow_server up to its store call.
UnfollowStart(h, c) ==
  /\ Free(h)
  /\ cmd' = [cmd EXCEPT ![h] =
       [IdleCmd EXCEPT !.kind = "unfollow", !.channel = c, !.pc = "delete"]]
  /\ UNCHANGED <<db, is_loop_running, live, nextMsg, task, clock, mutex, call>>

\* db.delete_subscriptions_by_channel_id(msg.channel_id).await?
UnfollowDelete(h) ==
  /\ cmd[h].pc = "delete"
  /\ \E ok \in BOOLEAN :
       LET r == delete_subscriptions_by_channel_id(db, cmd[h].channel)
       IN IF ok
          THEN /\ db' = r.db
               /\ cmd' = [cmd EXCEPT ![h] =
                    [@ EXCEPT !.pc = "reply", !.changes = r.changes,
                              !.trail = Append(@, "deleted"),
                              !.text = "Unsubscribed from server status updates :("]]
          ELSE /\ db' = db
               /\ cmd' = [cmd EXCEPT ![h] = Return(@, "Err")]
  /\ UNCHANGED <<is_loop_running, live, nextMsg, task, clock, mutex, call>>

\* ------------------------------------------------------------- environment
\* A user removes a status message on the chat platform.
RemoveMessage(m) ==
  /\ m \in live
  /\ live' = live \ {m}
  /\ UNCHANGED <<db, is_loop_running, nextMsg, task, cmd, clock, mutex, call>>

\* One step of polling task l.
Poll(l) ==
  \/ ListSubscriptions(l)
  \/ QueryInfo(l)
  \/ QueryPlayers(l)
  \/ EditMessage(l)
  \/ DeleteGone(l)
  \/ Continue(l)
  \/ Sleep(l)

\* One step of command invocation h.
Command(h) ==
  \/ \E c \in Channels, arg \in Args : FollowStart(h, c, arg)
  \/ Reply(h)
  \/ SendStatus(h)
  \/ StoreSubscription(h)
  \/ React(h)
  \/ \E c \in Channels : UnfollowStart(h, c)
  \/ UnfollowDelete(h)

Next ==
  \/ cache_ready
  \/ \E l \in LoopIds : Poll(l)
  \/ \E h \in HandlerIds : Command(h)
  \/ \E m \in MsgIds : RemoveMessage(m)

Spec == Init /\ [][Next]_vars

\* ------------------------------------------------------------- SpecReady
\* The process started on the store an earlier run left behind (gorillabot.db
\* is opened, not created), the runtime holds ReadyLoopIds tasks, time
\* passes and no command arrives: every behaviour is one of the program.
\* Under Spec the clock stands still.
PersistedRows ==
  {Subscription(1, "c1", 1, "h1"), Subscription(2, "c2", 2, "h2")}

InitReady ==
  /\ db \in SUBSET PersistedRows
  /\ is_loop_running = FALSE
  /\ live \in SUBSET {r.message_id : r \in db}
  /\ nextMsg = MaxMsgs + 1
  /\ task = [l \in ReadyLoopIds |-> IdleTask]
  /\ cmd = [h \in HandlerIds |-> IdleCmd]
  /\ clock = 0
  /\ mutex = "free"
  /\ call = [c \in Clients |-> NoCall]

\* A second passes on the wall clock.
Tick ==
  /\ clock < MaxClock
  /\ clock' = clock + 1
  /\ UNCHANGED <<db, is_loop_running, live, nextMsg, task, cmd, mutex, call>>

NextReady ==
  \/ cache_ready
  \/ \E l \in ReadyLoopIds : Poll(l)
  \/ \E m \in MsgIds : RemoveMessage(m)
  \/ Tick

SpecReady == InitReady /\ [][NextReady]_vars

\* The runtime goes on running every spawned task that can take a step,
\* and every await of the loop returns.
SpecReadyFair == SpecReady /\ \A l \in ReadyLoopIds : WF_vars(Poll(l))

\* ------------------------------------------------------------- SpecStore
\* The store on its own, with every BotDb method taken apart into the lock,
\* the statement and the drop of the guard.  An INSERT is two writes: the
\* row appears with message_id 0 and then gets its message_id.  Spec and
\* SpecReady take each method as one step.
StoreOps(c) ==
  IF c = "main" THEN {"migrate"}
  ELSE IF c = "handler" THEN {"upsert", "delete_by_channel"}
  ELSE {"list", "delete_by_id"}

\* The hosts the handler's upserts name under SpecStore, and the row ids
\* in use there: upsert is called while the next row id is one of them.
StoreHosts == {"h1"}
RowIds == 1..(Cardinality(Channels) * Cardinality(StoreHosts) + 1)

\* A method of BotDb is called: main calls migrate before the client
\* starts, the others call theirs once the client runs.
StoreCall(c) ==
  /\ call[c].pc = "idle"
  /\ c # "main" => call["main"].pc = "done"
  /\ \E op \in StoreOps(c), ch \in Channels, h \in StoreHosts, m \in MsgIds,
        id \in RowIds :
       /\ op = "upsert" => NextRowId(db) \in RowIds
       /\ call' = [call EXCEPT ![c] =
         [NoCall EXCEPT
            !.pc = "wait", !.op = op,
            !.channel = IF op \in {"upsert", "delete_by_channel"} THEN ch ELSE "c1",
            !.host = IF op = "upsert" THEN h ELSE "h1",
            !.msg = IF op = "upsert" THEN m ELSE 0,
            !.id = IF op = "delete_by_id" THEN id ELSE 0]]
  /\ UNCHANGED <<db, is_loop_running, live, nextMsg, task, cmd, clock, mutex>>

\* A lock() that returns whether or not the mutex is held.
lock_without_waiting(c) ==
  /\ call[c].pc = "wait"
  /\ mutex' = c
  /\ call' = [call EXCEPT ![c].pc = "held"]
  /\ UNCHANGED <<db, is_loop_running, live, nextMsg, task, cmd, clock>>

\* let conn = self.conn().await: self.0.lock().await returns the guard
\* when nobody holds the mutex.
conn(c) ==
  /\ call[c].pc = "wait"
  /\ mutex = "free"
  /\ mutex' = c
  /\ call' = [call EXCEPT ![c].pc = "held"]
  /\ UNCHANGED <<db, is_loop_running, live, nextMsg, task, cmd, clock>>

\* The rows whose INSERT is not complete.
Partial(d) == {r \in d : r.message_id = 0}

\* The statement runs on the connection behind the guard.  It may fail
\* (the ? of prepare_cached, execute, query): then the store is as it was.
Execute(c) ==
  /\ call[c].pc = "held"
  /\ LET a == call[c] IN
     \/ /\ db' = db
        /\ call' = [call EXCEPT ![c].pc = "executed"]
     \/ /\ a.op = "migrate"
        /\ db' = db
        /\ call' = [call EXCEPT ![c].pc = "executed"]
     \/ /\ a.op = "upsert"
        /\ db' = IF Conflicts(db, a.channel, a.host) # {} THEN db
                 ELSE db \cup {Subscription(NextRowId(db), a.channel, 0, a.host)}
        /\ call' = [call EXCEPT ![c].pc = "mid"]
     \/ /\ a.op = "delete_by_channel"
        /\ LET r == delete_subscriptions_by_channel_id(db, a.channel)
           IN /\ db' = r.db
              /\ call' = [call EXCEPT ![c].pc = "executed",
                                      ![c].changes = r.changes]
     \/ /\ a.op = "delete_by_id"
        /\ LET r == delete_subscription_by_id(db, a.id)
           IN /\ db' = r.db
              /\ call' = [call EXCEPT ![c].pc = "executed",
                                      ![c].changes = r.changes]
     \/ /\ a.op = "list"
        /\ db' = db
        /\ call' = [call EXCEPT ![c].pc = "executed",
                                ![c].rows = get_subscriptions(db)]
  /\ UNCHANGED <<is_loop_running, live, nextMsg, task, cmd, clock, mutex>>

\* The second write of the upsert: message_id (and server_hostname, to the
\* value it has) of the row of the pair.
Finish(c) ==
  /\ call[c].pc = "mid"
  /\ db' = {IF r.channel_id = call[c].channel
                /\ r.server_hostname = call[c].host
             THEN [r EXCEPT !.server_hostname = call[c].host,
                            !.message_id = call[c].msg]
             ELSE r : r \in db}
  /\ call' = [call EXCEPT ![c].pc = "executed"]
  /\ UNCHANGED <<is_loop_running, live, nextMsg, task, cmd, clock, mutex>>

\* The method returns and its guard is dropped.  main goes on to start the
\* client and calls no method again.
Drop(c) ==
  /\ call[c].pc = "executed"
  /\ mutex' = IF mutex = c THEN "free" ELSE mutex
  /\ call' = [call EXCEPT ![c] =
       IF c = "main" THEN [NoCall EXCEPT !.pc = "done"] ELSE NoCall]
  /\ UNCHANGED <<db, is_loop_running, live, nextMsg, task, cmd, clock>>

NextStore ==
  \E c \in Clients :
    StoreCall(c) \/ conn(c) \/ Execute(c) \/ Finish(c) \/ Drop(c)

SpecStore == Init /\ [][NextStore]_vars

\* ------------------------------------------------------------- claims
\* Polling task l, or command invocation h, takes the step.
PollStep(l) == task'[l] # task[l]
CmdStep(h) == cmd'[h] # cmd[h]

RowsOf(d, c, h) == {r \in d : r.channel_id = c /\ r.server_hostname = h}

\* C1: however often cache_ready fires, at most one polling task is ever
\* started.
C1_AtMostOneLoop == Cardinality(Spawned) <= 1

\* C2: the store holds at most one row per (channel_id, server_hostname)
\* pair in every reachable state, and an upsert leaves exactly one row for
\* its pair, carrying the message_id of that call (so the second of two
\* upserts for a pair wins).
C2_UniquePairs ==
  \A r1, r2 \in db :
    (r1.channel_id = r2.channel_id /\ r1.server_hostname = r2.server_hostname)
      => r1 = r2

C2_UpsertWins ==
  \A h \in DOMAIN cmd :
    (cmd[h].pc = "upsert" /\ cmd'[h].pc = "react") =>
      /\ Cardinality(RowsOf(db', cmd[h].channel, cmd[h].arg)) = 1
      /\ \A r \in RowsOf(db', cmd[h].channel, cmd[h].arg) :
           r.message_id = cmd[h].msg

C2_OneRowPerPair == []C2_UniquePairs /\ [][C2_UpsertWins]_vars

\* A second upsert for a pair has just been made: one row, its message id.
C2_Witness ==
  \E h \in DOMAIN cmd :
    /\ cmd[h].pc = "react" /\ cmd[h].hit /\ cmd[h].msg = 2
    /\ RowsOf(db, cmd[h].channel, cmd[h].arg)
         = {Subscription(1, cmd[h].channel, 2, cmd[h].arg)}

\* C3: a row the polling cycle deletes has, when it is removed, the
\* channel_id, server_hostname and message_id of the snapshot entry whose
\* edit failed with "Unknown Message"; the cycle never removes a row whose
\* current message still exists.
C3_RemovesSnapshotRow ==
  [][\A l \in Loops :
       (PollStep(l) /\ task[l].pc = "delete") =>
         \A r \in db \ db' :
           /\ r.channel_id = task[l].cur.channel_id
           /\ r.server_hostname = task[l].cur.server_hostname
           /\ r.message_id = task[l].cur.message_id
           /\ r.message_id \notin live]_vars

\* C4: after an edit failed with "Unknown Message" the cycle calls
\* delete_subscription_by_id for that subscription exactly once and makes no
\* further edit for it in the cycle: one edit at most per entry, and the
\* entries still to come are other rows.
C4_DeleteOnceNoReedit ==
  \A l \in Loops :
    LET t == task[l] IN
    /\ t.edits <= 1 /\ t.dels <= 1
    /\ t.pc = "delete" =>
         t.lastEdit = "Unknown Message" /\ t.edits = 1 /\ t.dels = 0
    /\ (t.pc \in {"next", "panicked"} /\ t.lastEdit = "Unknown Message") =>
         t.edits = 1 /\ t.dels = 1
    /\ t.lastEdit # "Unknown Message" => t.dels = 0
    /\ t.pc \in {"info", "players", "edit", "delete", "next"} =>
         \A k \in 1..Len(t.rest) : t.rest[k].id # t.cur.id

\* The edit failed with "Unknown Message" and the row was deleted by id.
C4_Witness ==
  \E l \in Loops :
    /\ task[l].pc = "next" /\ task[l].lastEdit = "Unknown Message"
    /\ task[l].dels = 1 /\ task[l].changes = 1

\* C5: every step of handle_subscription other than the delete that follows
\* an "Unknown Message" edit failure leaves the store as it was: a failed
\* info query, a failed player query, a successful edit and any other edit
\* failure keep the row, with all its columns.
C5_StoreUntouched ==
  [][\A l \in Loops :
       (PollStep(l) /\ ~(task[l].pc = "delete"
                         /\ task[l].lastEdit = "Unknown Message"))
         => db' = db]_vars

\* An edit failed for another reason and handle_subscription returned; the
\* row is still in the store.
C5_Witness ==
  \E l \in Loops :
    /\ task[l].pc = "next" /\ task[l].lastEdit = "Missing Permissions"
    /\ task[l].cur \in db

\* C6: when a polling cycle is over, whether the task went to sleep or
\* ended, no entry of the list it read is left without its edit attempt,
\* whatever the queries, edits and store deletes of earlier entries returned.
C6_EveryEntryEdited ==
  \A l \in Loops :
    task[l].pc \in {"sleep", "panicked"} => task[l].rest = <<>>

\* C7: a delete_subscriptions_by_channel_id(c) that succeeds, as issued by
\* unfollow_server, removes every row of channel c and no other row, and
\* returns the number of rows it removed.
C7_DeleteByChannel ==
  [][\A h \in DOMAIN cmd :
       (cmd[h].pc = "delete" /\ cmd'[h].pc = "reply") =>
         /\ \A r \in db' : r.channel_id # cmd[h].channel
         /\ \A r \in db : r.channel_id # cmd[h].channel => r \in db'
         /\ db' \subseteq db
         /\ cmd'[h].changes = Cardinality(db \ db')
         /\ cmd'[h].changes
              = Cardinality({x \in Hosts : RowsOf(db, cmd[h].channel, x) # {}})
    ]_vars

\* unfollow_server removed the one row of its channel; the row of the other
\* channel is still there.
C7_Witness ==
  \E h \in DOMAIN cmd :
    /\ cmd[h].pc = "reply" /\ cmd[h].kind = "unfollow"
    /\ cmd[h].changes = 1
    /\ \E r \in db : r.channel_id # cmd[h].channel

\* C8: a delete_subscription_by_id(i) that succeeds removes the row whose id
\* is i and returns 1, or, when no row has id i, removes nothing and
\* returns 0.
C8_DeleteById ==
  [][\A l \in Loops :
       (PollStep(l) /\ task[l].pc = "delete" /\ task'[l].pc = "next") =>
         LET hit == {r \in db : r.id = task[l].cur.id} IN
         /\ Cardinality(hit) <= 1
         /\ db' = db \ hit
         /\ task'[l].changes = Cardinality(hit)
         /\ Cardinality(db) - Cardinality(db') = task'[l].changes
    ]_vars

\* The row was gone before the cycle's delete ran: nothing removed, 0
\* returned, the other row kept.
C8_Witness ==
  \E l \in Loops :
    /\ task[l].pc = "next" /\ task[l].dels = 1 /\ task[l].changes = 0
    /\ db # {}

\* follow_server was called with no argument, a malformed one, or one that
\* resolves to no address.
BadArg(c) == c.kind = "follow" /\ c.arg \in {"", "bad", "nores"}

ErrorText(arg) ==
  IF arg = "" THEN "Expected server hostname"
  ELSE IF arg = "bad" THEN "Invalid server hostname"
  ELSE "Failed to resolve server address"

\* A follow_server that returned without having accepted its argument.
Rejected(c) ==
  /\ c.pc = "done" /\ c.kind = "follow"
  /\ (c.trail = <<>> \/ c.trail[1] # "validated")

\* C9 as claimed: follow_server with an empty, malformed or unresolvable
\* argument replies with an error message and returns success, without a
\* status message, a store operation or a reaction.
C9_RepliesAndSucceeds ==
  \A h \in DOMAIN cmd :
    Rejected(cmd[h]) =>
      cmd[h].trail = <<"replied">> /\ cmd[h].result = "Ok"

\* C9 as amended: such a follow_server makes one reply with the error
\* message and returns success when that reply was delivered, and the
\* reply's own failure otherwise; in both cases it sends no status message,
\* leaves the store as it was and adds no reaction.
C9_Inv ==
  \A h \in DOMAIN cmd :
    LET c == cmd[h] IN
    /\ (c.kind = "follow" /\ c.pc \in {"send", "upsert", "react"})
         => ~BadArg(c)
    /\ (c.kind = "follow" /\ c.pc = "reply")
         => BadArg(c) /\ c.text = ErrorText(c.arg) /\ c.trail = <<>>
              /\ c.msg = 0
    /\ Rejected(c)
         => \/ c.trail = <<"replied">> /\ c.result = "Ok"
            \/ c.trail = <<>> /\ c.result = "Err"

C9_Frame ==
  \A h \in DOMAIN cmd :
    (CmdStep(h) /\ (BadArg(cmd[h]) \/ BadArg(cmd'[h])))
      => UNCHANGED <<db, live, nextMsg>>

C9_BadArgReply == []C9_Inv /\ [][C9_Frame]_vars

\* The error reply was delivered and the command returned Ok.
C9_Witness ==
  \E h \in DOMAIN cmd :
    /\ cmd[h].pc = "done" /\ cmd[h].kind = "follow"
    /\ cmd[h].trail = <<"replied">> /\ cmd[h].result = "Ok"

FollowSteps == <<"validated", "sent", "stored", "reacted">>

\* C10: follow_server validates, sends the status message, upserts, reacts,
\* in that order, and returns Ok only after all four; the row it writes
\* carries the id of the message it sent and the invoking channel, every
\* stored message id is one the platform handed out, and the reaction
\* follows a successful upsert.
C10_Inv ==
  /\ \A r \in db : r.message_id \in 1..(nextMsg - 1)
  /\ \A h \in DOMAIN cmd :
       LET c == cmd[h] IN
       (c.kind = "follow" /\ c.trail # <<>> /\ c.trail[1] = "validated") =>
         /\ Len(c.trail) <= Len(FollowSteps)
         /\ c.trail = SubSeq(FollowSteps, 1, Len(c.trail))
         /\ c.pc = "send" => c.trail = <<"validated">>
         /\ c.pc = "upsert" =>
              c.trail = <<"validated", "sent">> /\ c.msg \in 1..(nextMsg - 1)
         /\ c.pc = "react" => c.trail = <<"validated", "sent", "stored">>
         /\ (c.pc = "done" /\ c.result = "Ok") => c.trail = FollowSteps
         /\ (c.pc = "done" /\ c.result = "Err") => c.trail # FollowSteps

C10_Stores ==
  \A h \in DOMAIN cmd :
    (cmd[h].pc = "upsert" /\ cmd'[h].pc = "react") =>
      \E r \in db' :
        /\ r.channel_id = cmd[h].channel /\ r.server_hostname = cmd[h].arg
        /\ r.message_id = cmd[h].msg /\ r.guild_id = GuildOf(cmd[h].channel)

C10_FollowOrder == []C10_Inv /\ [][C10_Stores]_vars

\* A follow_server that went through all four steps and returned Ok.
C10_Witness ==
  \E h \in DOMAIN cmd :
    /\ cmd[h].pc = "done" /\ cmd[h].kind = "follow"
    /\ cmd[h].result = "Ok" /\ cmd[h].trail = FollowSteps

\* The values of the fields called n in payload p, in order.
Values(p, n) ==
  LET F[k \in 0..Len(p)] ==
        IF k = 0 THEN <<>>
        ELSE IF p[k].name = n THEN Append(F[k - 1], p[k].value) ELSE F[k - 1]
  IN F[Len(p)]

\* Task l ends its queries in this step: the payload is built.
Builds(l) == PollStep(l) /\ task[l].pc # "edit" /\ task'[l].pc = "edit"

\* The players query of task t was made and returned Ok.
PlayersOk(t) == \E k \in 1..Len(t.q) : t.q[k] = [query |-> "players", ok |-> TRUE]

\* The fields every payload of a successful info query carries.
C11_InfoFields(t) ==
  LET p == StatusOf(t) IN
  /\ Values(p, "Server name") = <<ServerName(t.cur.server_hostname)>>
  /\ Values(p, "Server address") = <<t.cur.server_hostname>>
  /\ Values(p, "Map") = <<ServerMap(t.cur.server_hostname)>>
  /\ Values(p, "Player count") = <<ToString(t.info.players)>>
  /\ Values(p, "Updated at") = <<FormatTime(t.at)>>

\* C11 as claimed: the payload of a successful info query has name,
\* address, map, player count and timestamp, no player-name field when the
\* count is 0, and the joined names when the count is > 0 and the player
\* query succeeded.
C11_PlayersWhenQueried ==
  \A l \in Loops :
    LET t == task[l] IN
    (t.pc = "edit" /\ t.info.some) =>
      /\ C11_InfoFields(t)
      /\ t.info.players = 0 => Values(StatusOf(t), "Players") = <<>>
      /\ (t.info.players > 0 /\ PlayersOk(t)) =>
           Values(StatusOf(t), "Players") = <<Join(t.info.list)>>

\* C11 as amended: the joined names are there when the player query
\* returned at least one player; when it failed or returned no player, as
\* when the count is 0, the payload has no player-name field.
C11_Inv ==
  \A l \in Loops :
    LET t == task[l] IN
    (t.pc = "edit" /\ t.info.some) =>
      /\ C11_InfoFields(t)
      /\ Len(StatusOf(t)) = IF t.info.list = <<>> THEN 5 ELSE 6
      /\ t.info.players = 0 => Values(StatusOf(t), "Players") = <<>>
      /\ (t.info.players > 0 /\ PlayersOk(t) /\ t.info.list # <<>>) =>
           Values(StatusOf(t), "Players") = <<Join(t.info.list)>>
      /\ (~PlayersOk(t) \/ t.info.list = <<>>) =>
           Values(StatusOf(t), "Players") = <<>>

\* The timestamp is the clock's reading when the payload is built.
C11_Stamp ==
  \A l \in Loops :
    (Builds(l) /\ task'[l].info.some) =>
      Values(StatusOf(task'[l]), "Updated at") = <<FormatTime(clock)>>

\* C11, amended: the fields of the payload of a successful info query, and
\* its timestamp.
C11_Payload == []C11_Inv /\ [][C11_Stamp]_vars

\* A payload with two players' names joined, built after the clock moved.
C11_Witness ==
  \E l \in Loops :
    /\ task[l].pc = "edit" /\ task[l].info.players = 2 /\ task[l].at > 0
    /\ Values(StatusOf(task[l]), "Players") = <<"ann, bob">>

\* The payload of a failed info query, as the store's row has the address.
C12_Inv ==
  \A l \in Loops :
    LET t == task[l]
        p == StatusOf(t)
    IN (t.pc = "edit" /\ ~t.info.some) =>
         /\ Values(p, "Server name") = <<"Unknown">>
         /\ Values(p, "Map") = <<"Unknown">>
         /\ Values(p, "Player count") = <<"Unknown">>
         /\ Values(p, "Players") = <<>>
         /\ Values(p, "Updated at") = <<FormatTime(t.at)>>
         /\ \E r \in PersistedRows :
              r.id = t.cur.id /\ Values(p, "Server address") = <<r.server_hostname>>
         /\ Len(p) = 5

\* A failed info query goes on to the edit with a payload stamped now, and
\* the step after it is the edit.
C12_Step ==
  \A l \in Loops :
    /\ (PollStep(l) /\ task[l].pc = "info" /\ ~task'[l].info.some) =>
         /\ task'[l].pc = "edit"
         /\ task'[l].q = <<[query |-> "info", ok |-> FALSE]>>
         /\ Values(StatusOf(task'[l]), "Updated at") = <<FormatTime(clock)>>
    /\ (PollStep(l) /\ task[l].pc = "edit") =>
         /\ task'[l].edits = task[l].edits + 1
         /\ task'[l].lastEdit \in EditResults(task[l].cur.message_id)

\* C12: when the info query fails the payload has "Unknown" for name, map
\* and player count, no player-name field, the subscription's address and
\* the timestamp of this check, and the edit is still attempted.
C12_UnknownPayload == []C12_Inv /\ [][C12_Step]_vars

\* A payload of a failed info query, built after the clock moved.
C12_Witness ==
  \E l \in Loops :
    /\ task[l].pc = "edit" /\ task[l].at > 0
    /\ task[l].q = <<[query |-> "info", ok |-> FALSE]>>
    /\ Values(StatusOf(task[l]), "Server name") = <<"Unknown">>

\* follow_server's upsert for (C, H) leaves exactly one row for the pair.
C13_Followed ==
  \A h \in DOMAIN cmd :
    (CmdStep(h) /\ cmd[h].pc = "upsert" /\ cmd'[h].pc = "react") =>
      \E r \in db' : RowsOf(db', cmd[h].channel, cmd[h].arg) = {r}

\* While H does not answer, the entry's edit carries the "Unknown" fields
\* and the entry's steps leave its row where it is.
C13_Unreachable ==
  \A l \in Loops :
    LET t == task[l] IN
    /\ (PollStep(l) /\ t.pc = "info" /\ ~task'[l].info.some) =>
         task'[l].pc = "edit" /\ db' = db
    /\ (PollStep(l) /\ t.pc = "edit" /\ ~t.info.some) =>
         /\ Values(StatusOf(t), "Server name") = <<"Unknown">>
         /\ Values(StatusOf(t), "Server address") = <<t.cur.server_hostname>>
         /\ db' = db
         /\ task'[l].lastEdit = "Ok" =>
              t.cur.message_id \in live /\ task'[l].pc = "next"

\* Once the message is gone its edit cannot succeed; the platform's
\* "Unknown Message" sends the cycle to the delete, and when that delete
\* has run no row has the entry's id.
C13_Removed ==
  \A l \in Loops :
    LET t == task[l] IN
    /\ (PollStep(l) /\ t.pc = "edit" /\ t.cur.message_id \notin live) =>
         task'[l].lastEdit # "Ok"
    /\ (PollStep(l) /\ t.pc = "edit"
          /\ task'[l].lastEdit = "Unknown Message") =>
         task'[l].pc = "delete" /\ task'[l].cur = t.cur
    /\ (PollStep(l) /\ t.pc = "delete" /\ task'[l].pc = "next") =>
         /\ \A r \in db' : r.id # t.cur.id
         /\ t.cur \in db => db' = db \ {t.cur}

\* C13: follow C -> H gives exactly one (C, H) row; a cycle while H is
\* unreachable edits the message to the "Unknown" fields and keeps the row;
\* after the message was deleted on the platform the next cycle removes the
\* row.
C13_EndToEnd ==
  [][C13_Followed /\ C13_Unreachable /\ C13_Removed]_vars

\* The follow returned Ok, its message was deleted on the platform, and
\* the cycle that met the missing message has removed the row: the store
\* is empty again.
C13_Witness ==
  /\ \E h \in DOMAIN cmd :
       cmd[h].pc = "done" /\ cmd[h].kind = "follow" /\ cmd[h].result = "Ok"
  /\ \E l \in Loops :
       /\ task[l].pc = "next" /\ task[l].lastEdit = "Unknown Message"
       /\ task[l].changes = 1 /\ task[l].cur.message_id \notin live
  /\ db = {}

\* C14: a polling loop that has started never stops: wherever it is in a
\* cycle, it comes to read the subscription list again, whatever the
\* queries, edits and store operations returned.
C14_LoopNeverStops ==
  \A l \in ReadyLoopIds :
    (task[l].pc \notin {"unspawned", "list"}) ~> (task[l].pc = "list")

SamePair(r1, r2) ==
  r1.channel_id = r2.channel_id /\ r1.server_hostname = r2.server_hostname

\* Every row has an id of its own, and so has every entry of a list read
\* from the store.
C15_Inv ==
  /\ \A r \in db : r.id >= 1
  /\ \A r1, r2 \in db : r1.id = r2.id => r1 = r2
  /\ \A l \in Loops :
       /\ task[l].pc \in {"info", "players", "edit", "delete", "next"} =>
            task[l].cur.id >= 1
       /\ \A k \in 1..Len(task[l].rest) : task[l].rest[k].id >= 1

\* Over any step a row that stays keeps its id and guild_id, and an id that
\* stays in use stays with its (channel_id, server_hostname); an upsert
\* that hits a row changes its message_id and nothing else.
C15_Step ==
  /\ \A r1 \in db : \A r2 \in db' :
       /\ SamePair(r1, r2) => r2.id = r1.id /\ r2.guild_id = r1.guild_id
       /\ r2.id = r1.id => SamePair(r1, r2)
  /\ \A h \in DOMAIN cmd :
       (CmdStep(h) /\ cmd[h].pc = "upsert" /\ cmd'[h].pc = "react") =>
         \A r \in RowsOf(db, cmd[h].channel, cmd[h].arg) :
           db' = (db \ {r}) \cup {[r EXCEPT !.message_id = cmd[h].msg]}

\* C15: a row's id is given at its insert and never changes: an upsert
\* that hits a row keeps its id and guild_id and replaces only the
\* message_id, every listed row has an id, and the id of a snapshot entry
\* denotes the same (channel_id, server_hostname) row while the row exists.
C15_StableId == []C15_Inv /\ [][C15_Step]_vars

\* The cycle holds a snapshot entry of a row that a later upsert has hit:
\* the row has the new message id under the id the snapshot knows.
C15_Witness ==
  \E l \in Loops : \E r \in db :
    /\ task[l].pc \in {"info", "players", "edit"}
    /\ r.id = task[l].cur.id /\ SamePair(r, task[l].cur)
    /\ r.message_id # task[l].cur.message_id

CallStep(c) == call'[c] # call[c]

InStatement(c) == call[c].pc \in {"held", "mid", "executed"}

\* At most one method holds the connection, the one the mutex names, and
\* a list that has run holds no row whose insert is half done.
C16_Inv ==
  /\ \A c1, c2 \in Clients : (InStatement(c1) /\ InStatement(c2)) => c1 = c2
  /\ \A c \in Clients : InStatement(c) <=> mutex = c
  /\ \A c \in Clients :
       \A k \in 1..Len(call[c].rows) : call[c].rows[k].message_id # 0
  /\ Partial(db) # {} => \E c \in Clients : call[c].pc = "mid"

\* The store changes only in steps of the method that holds the lock, and
\* the two writes of an upsert add up to upsert_subscription on the store
\* as it was when the upsert began.
C16_Step ==
  /\ db' # db => \E c \in Clients : mutex = c /\ CallStep(c)
  /\ \A c \in Clients :
       (CallStep(c) /\ call[c].pc = "mid") =>
         db' = upsert_subscription(db \ Partial(db), call[c].channel,
                                   call[c].msg, call[c].host)

\* C16: the store's methods (migrate, upsert, delete by channel, delete by
\* id, list) exclude one another: one at a time holds the connection, so
\* concurrent calls take effect one after another and the list never
\* returns a half-written row.
C16_Exclusive == []C16_Inv /\ [][C16_Step]_vars

\* The handler's upsert has inserted its row without the message id yet,
\* while the loop's list waits for the lock.
C16_Witness ==
  /\ call["handler"].pc = "mid" /\ Partial(db) # {}
  /\ call["loop"].pc = "wait" /\ call["loop"].op = "list"
  /\ mutex = "handler"

RowsIn(d, c) == {r \in d : r.channel_id = c}

\* follow_server's upsert runs in a channel that has a row already.
Refollows(h) ==
  /\ CmdStep(h) /\ cmd[h].pc = "upsert" /\ cmd'[h].pc = "react"
  /\ RowsIn(db, cmd[h].channel) # {}

\* C17 as claimed: when a channel that has a subscription follows again,
\* the same host or another, the existing row is changed in place and the
\* channel has no more rows than before.
C17_NoGrowth ==
  [][\A h \in DOMAIN cmd :
       Refollows(h) =>
         Cardinality(RowsIn(db', cmd[h].channel))
           <= Cardinality(RowsIn(db, cmd[h].channel))]_vars

\* C17 as amended: a follow of the host the channel follows already
\* replaces the message id of that row and adds none; a follow of another
\* host adds a row of its own for the pair and leaves the channel's other
\* rows as they were.
C17_Refollow ==
  [][\A h \in DOMAIN cmd :
       Refollows(h) =>
         LET c == cmd[h].channel
             old == RowsOf(db, c, cmd[h].arg)
         IN /\ old # {} =>
                 /\ Cardinality(RowsIn(db', c)) = Cardinality(RowsIn(db, c))
                 /\ \E r \in old :
                      db' = (db \ {r}) \cup {[r EXCEPT !.message_id = cmd[h].msg]}
            /\ old = {} =>
                 /\ Cardinality(RowsIn(db', c)) = Cardinality(RowsIn(db, c)) + 1
                 /\ db \subseteq db'
                 /\ \E r \in db' \ db :
                      /\ db' = db \cup {r}
                      /\ r.channel_id = c /\ r.server_hostname = cmd[h].arg
                      /\ r.message_id = cmd[h].msg
                      /\ \A x \in db : x.id # r.id]_vars

\* A channel has followed a second host: it has two rows, one per host.
C17_Witness ==
  \E h \in DOMAIN cmd :
    /\ cmd[h].pc = "react" /\ cmd[h].kind = "follow"
    /\ Cardinality(RowsIn(db, cmd[h].channel)) = 2
    /\ \A x \in Hosts : RowsOf(db, cmd[h].channel, x) # {}

InfoQuery(ok) == [query |-> "info", ok |-> ok]
PlayersQuery(ok) == [query |-> "players", ok |-> ok]

\* The queries made for an entry by the time its payload is built.
C18_Inv ==
  \A l \in Loops :
    LET t == task[l] IN
    /\ t.pc = "info" => t.q = <<>>
    /\ t.pc = "players" => t.q = <<InfoQuery(TRUE)>> /\ t.info.players > 0
    /\ t.pc = "edit" =>
         /\ t.q \in {<<InfoQuery(FALSE)>>, <<InfoQuery(TRUE)>>,
                     <<InfoQuery(TRUE), PlayersQuery(TRUE)>>,
                     <<InfoQuery(TRUE), PlayersQuery(FALSE)>>}
         /\ Len(t.q) = 2 <=> (t.q[1].ok /\ t.info.some /\ t.info.players > 0)
         /\ t.q[1].ok <=> t.info.some
         /\ t.q[Len(t.q)] = PlayersQuery(FALSE) =>
              /\ t.info.list = <<>>
              /\ C11_InfoFields(t)
              /\ Values(StatusOf(t), "Players") = <<>>

\* A players query, failed or not, is followed by the edit.
C18_Step ==
  \A l \in Loops :
    /\ (PollStep(l) /\ task[l].pc = "players") =>
         /\ task'[l].pc = "edit" /\ Len(task'[l].q) = 2
         /\ task'[l].info.name = task[l].info.name
         /\ task'[l].info.players = task[l].info.players
    /\ (PollStep(l) /\ task[l].pc = "edit" /\ Len(task[l].q) = 2) =>
         task'[l].edits = 1 /\ task'[l].lastEdit # "none"

\* C18: the player-list query is made exactly when the info query
\* succeeded with a player count > 0, and after it; when it fails the list
\* counts as empty and the edit is made with the info fields and no
\* player-name field.
C18_PlayersQuery == []C18_Inv /\ [][C18_Step]_vars

\* The info query reported two players and the players query failed: the
\* payload to edit has five fields.
C18_Witness ==
  \E l \in Loops :
    /\ task[l].pc = "edit" /\ task[l].info.players = 2
    /\ task[l].q = <<InfoQuery(TRUE), PlayersQuery(FALSE)>>
    /\ Len(StatusOf(task[l])) = 5

InCycle(t) == t.pc \in {"info", "players", "edit", "delete", "next"}

\* The entries a cycle still holds: the one in hand and those to come.
Entries(t) ==
  (IF InCycle(t) THEN {t.cur} ELSE {}) \cup {t.rest[k] : k \in 1..Len(t.rest)}

\* No entry of a cycle, so no edit of it, is in a channel that had no row
\* when the cycle read its list.
C19_Inv ==
  \A l \in Loops : \A e \in Entries(task[l]) : e.channel_id \notin task[l].absent

\* The list a cycle reads is the store's rows of that moment; unfollow's
\* delete leaves its channel without a row; a channel without a row gets
\* one again only from follow_server's upsert in that channel; and every
\* edit is for an entry of the list the cycle read.
C19_Step ==
  /\ \A l \in Loops :
       /\ (PollStep(l) /\ task[l].pc = "list" /\ task'[l].pc # "panicked") =>
            /\ Entries(task'[l]) = db
            /\ \A c \in Unfollowed(db) :
                 \A e \in Entries(task'[l]) : e.channel_id # c
       /\ (PollStep(l) /\ task[l].pc # "list") =>
            Entries(task'[l]) \subseteq Entries(task[l])
       /\ (PollStep(l) /\ task'[l].edits = task[l].edits + 1) =>
            task[l].cur \in Entries(task[l])
  /\ \A h \in DOMAIN cmd :
       (CmdStep(h) /\ cmd[h].pc = "delete" /\ cmd'[h].pc = "reply") =>
         cmd[h].channel \in Unfollowed(db')
  /\ \A c \in Unfollowed(db) \ Unfollowed(db') :
       \E h \in DOMAIN cmd :
         /\ CmdStep(h) /\ cmd[h].kind = "follow" /\ cmd[h].pc = "upsert"
         /\ cmd[h].channel = c

\* C19: once unfollow_server's delete for a channel is done, an edit in
\* that channel can only come from a cycle that read its list before the
\* delete: a cycle that reads the list later has no entry of the channel,
\* and edits none, until the channel follows again.
C19_NoEditAfterUnfollow == []C19_Inv /\ [][C19_Step]_vars

\* unfollow_server has deleted the channel's rows and returned, and a cycle
\* that read its list before is about to edit a message in that channel.
C19_Witness ==
  \E l \in Loops : \E h \in DOMAIN cmd :
    /\ cmd[h].pc = "done" /\ cmd[h].kind = "unfollow"
    /\ cmd[h].trail # <<>> /\ cmd[h].trail[1] = "deleted"
    /\ task[l].pc = "edit"
    /\ task[l].cur.channel_id \in Unfollowed(db)

====
